---- MODULE Spec2Model ----
(***************************************************************************)
(* A model of hashmage/crypto-twitter-bot.                                 *)
(*                                                                         *)
(*   Spec      one invocation of real_bot.post_tweet (src/real_bot.py):    *)
(*             credential check, optional media upload, the tweet-creation *)
(*             retry loop with its 429 / transport back-off.               *)
(*   SpecLive  the same where every request and sleep completes.           *)
(*   SpecLong  the same with longer retry budgets.                         *)
(*   SpecScan  one call of find_biggest_green_candle (src/poster.py and    *)
(*             src/lambda_function.py): ticker snapshot, per-symbol candle *)
(*             fetch, gain calculation, winner selection.                  *)
(*   SpecGain  one call of calculate_hourly_change.                        *)
(*   SpecPair  real_bot.post_tweet and bot.post_with_backoff_example       *)
(*             (src/bot.py) against the same server behaviour.             *)
(*   SpecMain  one run of poster.main or bot.main, with the scan and the   *)
(*             posters they call.                                          *)
(*   SpecLambda  one invocation of lambda_handler                          *)
(*             (src/lambda_function.py).                                   *)
(*                                                                         *)
(* Text values that the code parses (header values, prices) are sequences  *)
(* of one-character strings, so that int() / float() are computed and not  *)
(* assumed.                                                                *)
(***************************************************************************)
EXTENDS Integers, Sequences, FiniteSets, TLC

VARIABLES
    pc,          \* position of post_tweet: start, upload, post, sleeping, done, raised
    creds,       \* <<API_KEY, API_SECRET, ACCESS_TOKEN, ACCESS_TOKEN_SECRET>>
    image_path,  \* the image_path argument
    max_retries, \* the max_retries argument
    media_id,    \* media_id local (NoneVal when absent)
    payload,     \* the JSON payload of the tweet-creation request
    attempt,     \* the attempt counter
    resp,        \* the last HTTP outcome seen (response or transport exception)
    pending,     \* the argument of the time.sleep call in progress
    sleeps,      \* durations of the sleeps completed so far, in order
    clock,       \* int(time.time())
    uploads,     \* number of media-upload requests issued
    posts,       \* number of tweet-creation requests issued
    result,      \* the returned dict (valid when pc = "done")
    exc,         \* the exception that left post_tweet (valid when pc = "raised")
    spc,         \* position of find_biggest_green_candle: start, scan, done
    symbols,     \* the ranked tickers returned by get_top_100_symbols
    scanned,     \* the candle fetches made so far: symbol and what came back
    results,     \* the results list
    winner,      \* the returned winner (Absent for None)
    tweet,       \* the returned tweet text (Absent for None)
    tweet_text,  \* the tweet_text argument of post_tweet
    gpc,         \* position of one calculate_hourly_change call: call, returned
    gain_in,     \* its candles argument (ok = FALSE for None)
    gain_out,    \* its return value (Absent for None)
    ex_pc,       \* position of bot.post_with_backoff_example: post, sleeping, done, raised
    ex_max_retries, \* its max_retries argument
    ex_attempt,  \* its attempt counter
    ex_resp,     \* the last HTTP outcome it saw
    ex_pending,  \* the argument of its time.sleep call in progress
    ex_sleeps,   \* durations of the sleeps it completed, in order
    ex_clock,    \* int(time.time()) as it sees it
    ex_posts,    \* number of tweet-creation requests it issued
    ex_exc,      \* the exception that left it (valid when ex_pc = "raised")
    feed,        \* the server outcomes by attempt number, when both posters
                 \* are run against the same server behaviour
    mpc,         \* position of main: start, scanning, gate, posting, example,
                 \* returned, raised
    entry_point, \* the entry point being run: "poster" (poster.main) or "bot" (bot.main)
    dry_env,     \* the DRY_RUN environment value main read (NoneVal when unset)
    has_real_bot, \* whether "import real_bot" gave a module with post_tweet
    chart_path,  \* what create_candlestick_chart returned (NoneVal for None)
    charts,      \* number of create_candlestick_chart calls
    chart_files, \* number of chart files written
    main_exc,    \* the exception that left main (valid when mpc = "raised")
    lpc,         \* position of lambda_handler: scanning, returned, raised
    l_posts,     \* number of tweet-creation requests lambda_function.post_tweet issued
    l_resp,      \* the HTTP outcome it saw
    statusCode   \* the statusCode lambda_handler returned (0 before it returns)

postVars == <<pc, creds, tweet_text, image_path, max_retries, media_id, payload,
              attempt, resp, pending, sleeps, clock, uploads, posts, result, exc>>
scanVars == <<spc, symbols, scanned, results, winner, tweet>>
gainVars == <<gpc, gain_in, gain_out>>
exVars == <<ex_pc, ex_max_retries, ex_attempt, ex_resp, ex_pending, ex_sleeps,
            ex_clock, ex_posts, ex_exc>>
mainVars == <<mpc, entry_point, dry_env, has_real_bot, chart_path, charts, chart_files,
              main_exc>>
lamVars == <<lpc, l_posts, l_resp, statusCode>>
vars == <<postVars, scanVars, gainVars, exVars, feed, mainVars, lamVars>>

\* What the steps of post_tweet, of the scan, of the gain call and of
\* post_with_backoff_example leave alone.
restOfPost == <<scanVars, gainVars, exVars, feed, mainVars, lamVars>>
restOfScan == <<postVars, gainVars, exVars, feed, mainVars, lamVars>>
restOfGain == <<postVars, scanVars, exVars, feed, mainVars, lamVars>>
restOfEx == <<postVars, scanVars, gainVars, feed, mainVars, lamVars>>
restOfMain == <<gainVars, feed, lamVars>>
restOfLambda == <<postVars, gainVars, exVars, feed, mainVars>>

-----------------------------------------------------------------------------
(* Bounds of the model *)

MaxRetries == 3     \* max_retries ranges over 0..MaxRetries (Spec)
LongRetries == 8    \* max_retries ranges over 0..LongRetries (SpecLong)
StartTime == 10     \* int(time.time()) when post_tweet is entered
MaxTickers == 4     \* tickers in one answer of the 24hr endpoint
MaxCandles == 3     \* candles in one argument of calculate_hourly_change
FeedLen == 3        \* server outcomes in one feed; max_retries ranges over 1..FeedLen (SpecPair)
TopCount == 3       \* stands for the 100 of usdt_pairs[:100]

(* Program constants *)

FallbackBase == 60      \* 60 * 2 ** (attempt - 1)
FallbackCap == 3600     \* min(..., 3600)
BackoffCap == 60        \* min(2 ** attempt, 60)
UploadOk == 200         \* r.status_code == 200
TooManyRequests == 429  \* r.status_code == 429

-----------------------------------------------------------------------------
(* Python values *)

NoneVal == "<None>"

Min(a, b) == IF a < b THEN a ELSE b
Max(a, b) == IF a > b THEN a ELSE b

\* Truthiness of an optional string (None and "" are falsy).
Truthy(s) == s # NoneVal /\ s # ""

Digit == {"0", "1", "2", "3", "4", "5", "6", "7", "8", "9"}

DigitVal(c) ==
    CASE c = "0" -> 0 [] c = "1" -> 1 [] c = "2" -> 2 [] c = "3" -> 3
      [] c = "4" -> 4 [] c = "5" -> 5 [] c = "6" -> 6 [] c = "7" -> 7
      [] c = "8" -> 8 [] c = "9" -> 9

RECURSIVE LStrip(_)
LStrip(s) == IF s # <<>> /\ Head(s) = " " THEN LStrip(Tail(s)) ELSE s

RECURSIVE RStrip(_)
RStrip(s) ==
    IF s # <<>> /\ s[Len(s)] = " " THEN RStrip(SubSeq(s, 1, Len(s) - 1)) ELSE s

RECURSIVE DigitsValue(_)
DigitsValue(s) ==
    IF s = <<>> THEN 0
    ELSE DigitsValue(SubSeq(s, 1, Len(s) - 1)) * 10 + DigitVal(s[Len(s)])

\* Python's int(str): surrounding blanks are stripped, an optional sign, then
\* one or more decimal digits; anything else raises ValueError (ok = FALSE).
PyInt(s) ==
    LET t == RStrip(LStrip(s))
        signed == t # <<>> /\ t[1] \in {"-", "+"}
        body == IF signed THEN Tail(t) ELSE t
        good == body # <<>> /\ \A i \in 1..Len(body) : body[i] \in Digit
    IN  IF good
        THEN [ok |-> TRUE,
              val |-> IF signed /\ t[1] = "-" THEN 0 - DigitsValue(body)
                      ELSE DigitsValue(body)]
        ELSE [ok |-> FALSE, val |-> 0]

-----------------------------------------------------------------------------
(* HTTP headers: dict(r.headers) is a plain dict keyed by the header names  *)
(* with the spelling the server sent them in.                               *)

HeaderNames == {"Retry-After", "retry-after", "x-rate-limit-reset",
                "X-Rate-Limit-Reset", "x-rate-limit-remaining", "Content-Type"}

\* str.lower() on the header names above.
Lower(k) ==
    CASE k = "Retry-After" -> "retry-after"
      [] k = "X-Rate-Limit-Reset" -> "x-rate-limit-reset"
      [] k = "Content-Type" -> "content-type"
      [] OTHER -> k

\* "rate" in k.lower()
ContainsRate(k) == Lower(k) \in {"x-rate-limit-reset", "x-rate-limit-remaining"}

\* dict.get(k): the lookup is by exact key.
HasKey(h, k) == k \in DOMAIN h

_rate_headers(headers) ==
    [k \in {n \in DOMAIN headers :
              ContainsRate(n) \/ Lower(n) \in {"retry-after", "x-rate-limit-reset"}}
       |-> headers[k]]

Hdr(k, v) == [n \in {k} |-> v]
Hdr2(k1, v1, k2, v2) == [n \in {k1, k2} |-> IF n = k1 THEN v1 ELSE v2]
NoHeaders == [n \in {} |-> <<>>]

\* The header sets a response may carry.  No two keys of one response are
\* equal up to case (requests folds those into one entry).
HeaderCases ==
    { NoHeaders,
      Hdr("Retry-After", <<"2">>),
      Hdr("Retry-After", <<"-", "1">>),
      Hdr("Retry-After", <<"s", "o", "o", "n">>),
      Hdr("Retry-After", <<>>),
      Hdr("retry-after", <<"2">>),
      Hdr("x-rate-limit-reset", <<"1", "5">>),
      Hdr("x-rate-limit-reset", <<"3">>),
      Hdr("X-Rate-Limit-Reset", <<"1", "5">>),
      Hdr2("Retry-After", <<"2">>, "x-rate-limit-reset", <<"1", "5">>),
      Hdr2("Retry-After", <<"x">>, "x-rate-limit-reset", <<"1", "5">>),
      Hdr2("Content-Type", <<"j">>, "x-rate-limit-reset", <<"1", ".", "5">>),
      Hdr2("Retry-After", <<" ", "7">>, "x-rate-limit-remaining", <<"0">>) }

-----------------------------------------------------------------------------
(* The environment of post_tweet *)

CredValues == {NoneVal, "", "key"}
ImagePaths == {NoneVal, "", "missing.png", "crypto_chart.png", "charts/"}

\* os.path.exists(image_path)
PathExists(p) == p \in {"crypto_chart.png", "charts/"}
\* open(image_path, "rb") succeeds (a directory cannot be opened)
CanOpen(p) == p = "crypto_chart.png"

TweetText == "tweet"

UploadStatuses == {200, 403}
PostStatuses == {200, 201, 429, 403, 503}

\* Response bodies (r.text).
UploadTexts == {"{media_id_string: m1}", "{}", "[]", "<html>"}
PostTexts == {"{data: {id: 1}}", "<html>"}
RateLimitText == "{title: Too Many Requests}"

\* r.json() succeeds
IsJson(t) == t \in {"{media_id_string: m1}", "{}", "[]",
                    "{data: {id: 1}}", RateLimitText}
\* r.json() is a dict
IsJsonObject(t) == IsJson(t) /\ t # "[]"
\* r.json().get("media_id_string")
MediaIdString(t) == IF t = "{media_id_string: m1}" THEN "m1" ELSE NoneVal

\* resp: the outcome of the last requests.post call, and which call it was.
NoResp ==
    [phase |-> "none", kind |-> "none", status |-> 0, headers |-> NoHeaders,
     text |-> ""]
Response(ph, st, h, t) ==
    [phase |-> ph, kind |-> "response", status |-> st, headers |-> h, text |-> t]
TransportError(ph) ==
    [phase |-> ph, kind |-> "exception", status |-> 0, headers |-> NoHeaders,
     text |-> "timeout"]

NoResult == [none |-> TRUE]

-----------------------------------------------------------------------------
(* Decisions of post_tweet *)

\* Mutant: any() in place of all().
HaveCredentials_Any(c) == \E i \in 1..4 : Truthy(c[i])

\* all([API_KEY, API_SECRET, ACCESS_TOKEN, ACCESS_TOKEN_SECRET])
HaveCredentials(c) == \A i \in 1..4 : Truthy(c[i])

\* Mutant: the upload phase is entered whatever the image path.
WantsUpload_Always(p) == TRUE

\* image_path and os.path.exists(image_path)
WantsUpload(p) == Truthy(p) /\ PathExists(p)

\* payload = {"text": tweet_text}; if media_id: payload["media"] = ...
BuildPayload(text, mid) ==
    IF Truthy(mid) THEN [text |-> text, media |-> <<mid>>] ELSE [text |-> text]

\* Mutant: only 201 Created counts as success.
IsSuccess_Only201(status) == status = 201

\* Mutant: 503 is retried like 429.
IsRateLimited_Or503(status) == status \in {TooManyRequests, 503}

IsSuccess(status) == status \in {200, 201}

IsRateLimited(status) == status = TooManyRequests

\* Mutant: attempt > max_retries.
RetriesExhausted_Late(att, maxr) == att > maxr

\* attempt >= max_retries
RetriesExhausted(att, maxr) == att >= maxr

\* min(60 * (2 ** (attempt - 1)), 3600)
ExponentialFallback(att) == Min(FallbackBase * (2 ^ (att - 1)), FallbackCap)

\* Mutant: the back-off is not capped.
Backoff_NoCap(att) == 2 ^ att

\* min(2 ** attempt, 60)
Backoff(att) == Min(2 ^ att, BackoffCap)

HeaderGet(h, k) ==
    IF HasKey(h, k) THEN [some |-> TRUE, val |-> h[k]]
    ELSE [some |-> FALSE, val |-> <<>>]

Nothing == [some |-> FALSE, val |-> 0]
Absent == [some |-> FALSE]
Present(v) == [some |-> TRUE, val |-> v]
Some(v) == [some |-> TRUE, val |-> v]

\* The sleep computed for a 429 response (real_bot.py lines 65-79).
RateLimitSleep(headers, att, now) ==
    LET retry_after == HeaderGet(headers, "Retry-After")
        reset_ts == HeaderGet(headers, "x-rate-limit-reset")
        s1 == IF retry_after.some /\ retry_after.val # <<>>
                   /\ PyInt(retry_after.val).ok
              THEN Some(PyInt(retry_after.val).val)
              ELSE Nothing
        s2 == IF ~s1.some /\ reset_ts.some /\ reset_ts.val # <<>>
              THEN IF PyInt(reset_ts.val).ok
                   THEN Some(Max(0, PyInt(reset_ts.val).val - now))
                   ELSE Nothing
              ELSE s1
    IN  IF s2.some THEN s2.val ELSE ExponentialFallback(att)

-----------------------------------------------------------------------------
(* post_tweet, step by step *)

Return(r) == pc' = "done" /\ result' = r /\ exc' = exc
Raise(e) == pc' = "raised" /\ exc' = e /\ result' = result

\* find_biggest_green_candle has not been called.
ScanIdle ==
    /\ spc = "start"
    /\ symbols = <<>>
    /\ scanned = <<>>
    /\ results = <<>>
    /\ winner = Absent
    /\ tweet = Absent

\* No calculate_hourly_change call is being followed.
GainIdle ==
    /\ gpc = "idle"
    /\ gain_in = [ok |-> FALSE, candles |-> <<>>]
    /\ gain_out = Absent

\* post_with_backoff_example has not been called.
ExIdle ==
    /\ ex_pc = "idle"
    /\ ex_max_retries = 0
    /\ ex_attempt = 0
    /\ ex_resp = NoResp
    /\ ex_pending = 0
    /\ ex_sleeps = <<>>
    /\ ex_clock = StartTime
    /\ ex_posts = 0
    /\ ex_exc = NoneVal

\* The two posters are not being run against one server behaviour.
NoFeed == feed = <<>>

\* lambda_handler is not being run.
LambdaIdle ==
    /\ lpc = "idle"
    /\ l_posts = 0
    /\ l_resp = NoResp
    /\ statusCode = 0

\* No main is being run.
MainIdle ==
    /\ mpc = "idle"
    /\ entry_point = "none"
    /\ dry_env = "<unread>"
    /\ has_real_bot = FALSE
    /\ chart_path = NoneVal
    /\ charts = 0
    /\ chart_files = 0
    /\ main_exc = NoneVal

\* post_tweet has not been called.
PostIdle ==
    /\ pc = "idle"
    /\ creds = [i \in 1..4 |-> "key"]
    /\ tweet_text = TweetText
    /\ image_path = NoneVal
    /\ max_retries = 0
    /\ media_id = NoneVal
    /\ payload = [text |-> TweetText]
    /\ attempt = 0
    /\ resp = NoResp
    /\ pending = 0
    /\ sleeps = <<>>
    /\ clock = StartTime
    /\ uploads = 0
    /\ posts = 0
    /\ result = NoResult
    /\ exc = NoneVal

Init ==
    /\ ScanIdle
    /\ LambdaIdle
    /\ GainIdle
    /\ ExIdle
    /\ NoFeed
    /\ MainIdle
    /\ tweet_text = TweetText
    /\ pc = "start"
    /\ creds \in [1..4 -> CredValues]
    /\ image_path \in ImagePaths
    /\ max_retries \in 0..MaxRetries
    /\ media_id = NoneVal
    /\ payload = [text |-> TweetText]
    /\ attempt = 0
    /\ resp = NoResp
    /\ pending = 0
    /\ sleeps = <<>>
    /\ clock = StartTime
    /\ uploads = 0
    /\ posts = 0
    /\ result = NoResult
    /\ exc = NoneVal

\* Lines 25-31 (and 46-51 when there is nothing to upload).
CheckCredentials ==
    /\ pc = "start"
    /\ IF ~HaveCredentials(creds)
       THEN /\ Return([ok |-> FALSE,
                       error |-> "Missing Twitter credentials in environment"])
            /\ UNCHANGED <<payload, attempt>>
       ELSE IF WantsUpload(image_path)
       THEN /\ pc' = "upload"
            /\ UNCHANGED <<payload, attempt, result, exc>>
       ELSE /\ pc' = "post"
            /\ payload' = BuildPayload(tweet_text, media_id)
            /\ attempt' = 0
            /\ UNCHANGED <<result, exc>>
    /\ UNCHANGED <<creds, tweet_text, image_path, max_retries, media_id, resp, pending,
                   sleeps, clock, uploads, posts>>
    /\ UNCHANGED restOfPost

\* Line 34: open(image_path, "rb") raises OSError, which
\* "except requests.RequestException" does not catch.
UploadOpenFails ==
    /\ pc = "upload"
    /\ ~CanOpen(image_path)
    /\ Raise("OSError")
    /\ UNCHANGED <<creds, tweet_text, image_path, max_retries, media_id, payload, attempt,
                   resp, pending, sleeps, clock, uploads, posts>>
    /\ UNCHANGED restOfPost

\* Lines 36-42 and 46-51: the upload request is answered.  A 200 body that is
\* not JSON makes r.json() raise; requests >= 2.27 raises a RequestException
\* there (caught at line 43), older releases a plain ValueError (not caught).
\* A JSON body that is not an object makes .get raise AttributeError.
UploadResponse(st, h, t, jsonErrorIsRequestException) ==
    /\ pc = "upload"
    /\ CanOpen(image_path)
    /\ uploads' = uploads + 1
    /\ resp' = Response("upload", st, h, t)
    /\ IF st = UploadOk
       THEN IF ~IsJson(t)
            THEN /\ IF jsonErrorIsRequestException
                    THEN Return([ok |-> FALSE, error |-> "Image upload exception"])
                    ELSE Raise("ValueError")
                 /\ UNCHANGED <<media_id, payload, attempt>>
            ELSE IF ~IsJsonObject(t)
            THEN /\ Raise("AttributeError")
                 /\ UNCHANGED <<media_id, payload, attempt>>
            ELSE /\ media_id' = MediaIdString(t)
                 /\ payload' = BuildPayload(tweet_text, media_id')
                 /\ attempt' = 0
                 /\ pc' = "post"
                 /\ UNCHANGED <<result, exc>>
       ELSE /\ Return([ok |-> FALSE, status_code |-> st, text |-> t,
                       rate |-> _rate_headers(h)])
            /\ UNCHANGED <<media_id, payload, attempt>>
    /\ UNCHANGED <<creds, tweet_text, image_path, max_retries, pending, sleeps, clock, posts>>
    /\ UNCHANGED restOfPost

\* Lines 43-44: the upload request raises a RequestException.
UploadException ==
    /\ pc = "upload"
    /\ CanOpen(image_path)
    /\ uploads' = uploads + 1
    /\ resp' = TransportError("upload")
    /\ Return([ok |-> FALSE, error |-> "Image upload exception"])
    /\ UNCHANGED <<creds, tweet_text, image_path, max_retries, media_id, payload, attempt,
                   pending, sleeps, clock, posts>>
    /\ UNCHANGED restOfPost

\* Lines 53-84: one pass of the loop whose request is answered.
PostResponse(st, h, t) ==
    /\ pc = "post"
    /\ attempt' = attempt + 1
    /\ posts' = posts + 1
    /\ resp' = Response("post", st, h, t)
    /\ IF IsSuccess(st)
       THEN /\ Return([ok |-> TRUE, status_code |-> st,
                       body |-> IF IsJson(t) THEN [json |-> t] ELSE [text |-> t],
                       rate |-> _rate_headers(h)])
            /\ UNCHANGED pending
       ELSE IF IsRateLimited(st)
       THEN IF RetriesExhausted(attempt', max_retries)
            THEN /\ Return([ok |-> FALSE, status_code |-> TooManyRequests,
                            text |-> t, rate |-> _rate_headers(h)])
                 /\ UNCHANGED pending
            ELSE /\ pending' = RateLimitSleep(h, attempt', clock)
                 /\ pc' = "sleeping"
                 /\ UNCHANGED <<result, exc>>
       ELSE /\ Return([ok |-> FALSE, status_code |-> st, text |-> t,
                       rate |-> _rate_headers(h)])
            /\ UNCHANGED pending
    /\ UNCHANGED <<creds, tweet_text, image_path, max_retries, media_id, payload, sleeps,
                   clock, uploads>>
    /\ UNCHANGED restOfPost

\* Lines 53-55 and 85-90: one pass of the loop whose request raises a
\* RequestException.
PostException ==
    /\ pc = "post"
    /\ attempt' = attempt + 1
    /\ posts' = posts + 1
    /\ resp' = TransportError("post")
    /\ IF RetriesExhausted(attempt', max_retries)
       THEN /\ Return([ok |-> FALSE, error |-> "RequestException"])
            /\ UNCHANGED pending
       ELSE /\ pending' = Backoff(attempt')
            /\ pc' = "sleeping"
            /\ UNCHANGED <<result, exc>>
    /\ UNCHANGED <<creds, tweet_text, image_path, max_retries, media_id, payload, sleeps,
                   clock, uploads>>
    /\ UNCHANGED restOfPost

\* Mutant: after a sleep the invocation starts over from the upload phase.
Sleep_Reupload ==
    /\ pc = "sleeping"
    /\ IF pending < 0
       THEN /\ Raise("ValueError")
            /\ UNCHANGED <<sleeps, clock>>
       ELSE /\ sleeps' = Append(sleeps, pending)
            /\ clock' = clock + pending
            /\ pc' = IF WantsUpload(image_path) THEN "upload" ELSE "post"
            /\ UNCHANGED <<result, exc>>
    /\ UNCHANGED <<creds, tweet_text, image_path, max_retries, media_id, payload, attempt,
                   resp, pending, uploads, posts>>
    /\ UNCHANGED restOfPost

\* Lines 82-83 and 89-90: time.sleep(pending), then continue.  time.sleep
\* raises ValueError on a negative argument, and neither call is inside a
\* handler that catches it.
Sleep ==
    /\ pc = "sleeping"
    /\ IF pending < 0
       THEN /\ Raise("ValueError")
            /\ UNCHANGED <<sleeps, clock>>
       ELSE /\ sleeps' = Append(sleeps, pending)
            /\ clock' = clock + pending
            /\ pc' = "post"
            /\ UNCHANGED <<result, exc>>
    /\ UNCHANGED <<creds, tweet_text, image_path, max_retries, media_id, payload, attempt,
                   resp, pending, uploads, posts>>
    /\ UNCHANGED restOfPost

Next ==
    \/ CheckCredentials
    \/ UploadOpenFails
    \/ \E st \in UploadStatuses, h \in HeaderCases, t \in UploadTexts,
          b \in BOOLEAN : UploadResponse(st, h, t, b)
    \/ UploadException
    \/ \E st \in PostStatuses, h \in HeaderCases :
          \E t \in (IF st = TooManyRequests THEN {RateLimitText} ELSE PostTexts) :
             PostResponse(st, h, t)
    \/ PostException
    \/ Sleep

Spec == Init /\ [][Next]_vars

\* The same invocation where every request and every sleep completes: the
\* blocking calls of lines 36, 54, 82 and 89 return or raise.
SpecLive == Init /\ [][Next]_vars /\ WF_vars(Next)

(* SpecLong: the same post_tweet with longer retry budgets, so that the     *)
(* back-off caps are reached (2 ** 6 > 60, 60 * 2 ** 6 > 3600), against a   *)
(* server with fewer header variants and no image.                          *)

LongHeaderCases == { NoHeaders, Hdr("Retry-After", <<"2">>) }

InitLong ==
    /\ ScanIdle
    /\ LambdaIdle
    /\ GainIdle
    /\ ExIdle
    /\ NoFeed
    /\ MainIdle
    /\ tweet_text = TweetText
    /\ pc = "start"
    /\ creds = [i \in 1..4 |-> "key"]
    /\ image_path = NoneVal
    /\ max_retries \in 0..LongRetries
    /\ media_id = NoneVal
    /\ payload = [text |-> TweetText]
    /\ attempt = 0
    /\ resp = NoResp
    /\ pending = 0
    /\ sleeps = <<>>
    /\ clock = StartTime
    /\ uploads = 0
    /\ posts = 0
    /\ result = NoResult
    /\ exc = NoneVal

NextLong ==
    \/ CheckCredentials
    \/ \E st \in PostStatuses, h \in LongHeaderCases :
          PostResponse(st, h, RateLimitText)
    \/ PostException
    \/ Sleep

SpecLong == InitLong /\ [][NextLong]_vars

-----------------------------------------------------------------------------
(* find_biggest_green_candle and its helpers (poster.py; lambda_function.py *)
(* holds the same functions, without the 'candles' entry of the gain).      *)

\* float(str) on the decimal literals the market data of the model uses.
PyFloat(s) == PyInt(s).val

\* seq[i] with Python's zero-based index.
At(seq, i) == seq[i + 1]

\* A kline row: [open_time, open, high, low, close, volume, close_time].
Candle(o, h, l, c, ct) == <<ct - 3600000, o, h, l, c, <<"7">>, ct>>

Bar_10_12 == Candle(<<"1", "0">>, <<"1", "3">>, <<"9">>, <<"1", "2">>, 7200000)
Bar_5_6 == Candle(<<"5">>, <<"7">>, <<"4">>, <<"6">>, 7200000)
Bar_10_11 == Candle(<<"1", "0">>, <<"1", "1">>, <<"1", "0">>, <<"1", "1">>, 7200000)
Bar_10_9 == Candle(<<"1", "0">>, <<"1", "0">>, <<"8">>, <<"9">>, 7200000)
Bar_10_10 == Candle(<<"1", "0">>, <<"1", "1">>, <<"9">>, <<"1", "0">>, 7200000)
Bar_0_5 == Candle(<<"0">>, <<"5">>, <<"0">>, <<"5">>, 7200000)
\* The bar still being formed when the klines are fetched.
Bar_Open == Candle(<<"1", "0">>, <<"1", "6">>, <<"1", "0">>, <<"1", "5">>, 10800000)
Bar_Old == Candle(<<"1", "0">>, <<"2", "0">>, <<"1", "0">>, <<"2", "0">>, 3600000)

ClosedBars == {Bar_10_12, Bar_5_6, Bar_10_11, Bar_10_9, Bar_10_10, Bar_0_5}

\* What get_last_hourly_candles may return: None, or the JSON list.
NoCandles == [ok |-> FALSE, candles |-> <<>>]
Candles(cs) == [ok |-> TRUE, candles |-> cs]
CandleOutcomes ==
    {NoCandles, Candles(<<>>), Candles(<<Bar_10_12>>)}
      \cup {Candles(<<b, Bar_Open>>) : b \in ClosedBars}
      \cup {Candles(<<Bar_Old, Bar_10_9, Bar_10_12>>),
            Candles(<<Bar_10_9, Bar_10_11, Bar_Open>>)}

\* change_percent is kept as the exact fraction num / den (den > 0).
Percent(open_price, close_price) ==
    [num |-> (close_price - open_price) * 100, den |-> open_price]
Less(a, b) == a.num * b.den < b.num * a.den
Positive(a) == a.num > 0

\* Mutant: the last candle is read in place of the second-to-last.
calculate_hourly_change_Last(candles) ==
    IF ~candles.ok \/ candles.candles = <<>> \/ Len(candles.candles) < 2
    THEN Absent
    ELSE LET last_candle == candles.candles[Len(candles.candles)]
             open_price == PyFloat(At(last_candle, 1))
             close_price == PyFloat(At(last_candle, 4))
         IN  IF open_price = 0 THEN Absent
             ELSE Present([open |-> open_price,
                           close |-> close_price,
                           high |-> PyFloat(At(last_candle, 2)),
                           low |-> PyFloat(At(last_candle, 3)),
                           change_percent |-> Percent(open_price, close_price),
                           close_time |-> At(last_candle, 6) \div 1000,
                           candles |-> candles.candles])

\* poster.py lines 58-78.  The argument is what get_last_hourly_candles
\* returned: None (ok = FALSE) or the list.
calculate_hourly_change(candles) ==
    IF ~candles.ok \/ candles.candles = <<>> \/ Len(candles.candles) < 2
    THEN Absent
    ELSE LET last_candle == candles.candles[Len(candles.candles) - 1]
             open_price == PyFloat(At(last_candle, 1))
             close_price == PyFloat(At(last_candle, 4))
             high_price == PyFloat(At(last_candle, 2))
             low_price == PyFloat(At(last_candle, 3))
             close_time == At(last_candle, 6)
         IN  IF open_price = 0 THEN Absent
             ELSE Present([open |-> open_price,
                           close |-> close_price,
                           high |-> high_price,
                           low |-> low_price,
                           change_percent |-> Percent(open_price, close_price),
                           close_time |-> close_time \div 1000,
                           candles |-> candles.candles])

\* Tickers of the 24hr endpoint.
Ticker(sym, vol) == [symbol |-> sym, quoteVolume |-> vol]
TickerUniverse ==
    { Ticker("BTCUSDT", <<"9">>), Ticker("ETHUSDT", <<"9">>),
      Ticker("SOLUSDT", <<"5">>), Ticker("DOGEUSDT", <<"1", "2">>),
      Ticker("ETHBTC", <<"7">>) }

\* symbol.endswith('USDT')
EndsWithUSDT(sym) == sym \in {"BTCUSDT", "ETHUSDT", "SOLUSDT", "DOGEUSDT"}

\* symbol.replace('USDT', '')
CoinName(sym) ==
    CASE sym = "BTCUSDT" -> "BTC" [] sym = "ETHUSDT" -> "ETH"
      [] sym = "SOLUSDT" -> "SOL" [] sym = "DOGEUSDT" -> "DOGE"
      [] OTHER -> sym

\* The bodies the ticker endpoint may answer with: lists of distinct tickers.
TickerLists ==
    {s \in UNION {[1..n -> TickerUniverse] : n \in 0..MaxTickers} :
        \A i, j \in 1..Len(s) : i # j => s[i] # s[j]}

\* [t for t in tickers if t['symbol'].endswith('USDT')]
RECURSIVE UsdtPairs(_)
UsdtPairs(tickers) ==
    IF tickers = <<>> THEN <<>>
    ELSE IF EndsWithUSDT(Head(tickers).symbol)
    THEN <<Head(tickers)>> \o UsdtPairs(Tail(tickers))
    ELSE UsdtPairs(Tail(tickers))

\* list.sort(key=..., reverse=True) is stable: an element goes after every
\* element whose key is greater than or equal to its own.
RECURSIVE InsertByVolume(_, _)
InsertByVolume(sorted, x) ==
    IF sorted = <<>> THEN <<x>>
    ELSE IF PyFloat(Head(sorted).quoteVolume) < PyFloat(x.quoteVolume)
    THEN <<x>> \o sorted
    ELSE <<Head(sorted)>> \o InsertByVolume(Tail(sorted), x)

RECURSIVE SortByVolume(_)
SortByVolume(seq) ==
    IF seq = <<>> THEN <<>>
    ELSE InsertByVolume(SortByVolume(SubSeq(seq, 1, Len(seq) - 1)), seq[Len(seq)])

\* poster.py lines 41-43: filter, sort by volume, keep the first TopCount.
RankSymbols(tickers) ==
    LET ranked == SortByVolume(UsdtPairs(tickers))
    IN  SubSeq(ranked, 1, Min(TopCount, Len(ranked)))

\* Mutant: among equal keys the later element goes first.
InsertByChange_TiesFirst(sorted, x) ==
    LET ahead == {i \in 1..Len(sorted) :
                    Less(x.change_percent, sorted[i].change_percent)}
        n == Cardinality(ahead)
    IN  SubSeq(sorted, 1, n) \o <<x>> \o SubSeq(sorted, n + 1, Len(sorted))

\* Mutant: ascending order.
InsertByChange_Asc(sorted, x) ==
    LET ahead == {i \in 1..Len(sorted) :
                    ~Less(x.change_percent, sorted[i].change_percent)}
        n == Cardinality(ahead)
    IN  SubSeq(sorted, 1, n) \o <<x>> \o SubSeq(sorted, n + 1, Len(sorted))

\* One step of results.sort(key=lambda x: x['change_percent'], reverse=True):
\* x is placed in front of the first element with a smaller change_percent.
InsertByChange(sorted, x) ==
    LET ahead == {i \in 1..Len(sorted) :
                    ~Less(sorted[i].change_percent, x.change_percent)}
        n == Cardinality(ahead)
    IN  SubSeq(sorted, 1, n) \o <<x>> \o SubSeq(sorted, n + 1, Len(sorted))

RECURSIVE SortByChange(_)
SortByChange(seq) ==
    IF seq = <<>> THEN <<>>
    ELSE InsertByChange(SortByChange(SubSeq(seq, 1, Len(seq) - 1)), seq[Len(seq)])

\* Mutant: a flat candle counts as green.
IsGreen_OrFlat(info) == info.some /\ info.val.change_percent.num >= 0

\* info and info['change_percent'] > 0
IsGreen(info) == info.some /\ Positive(info.val.change_percent)

\* poster.py line 194.
Candidate(sym, info) ==
    [symbol |-> CoinName(sym), full_symbol |-> sym, open |-> info.open,
     close |-> info.close, high |-> info.high, low |-> info.low,
     change_percent |-> info.change_percent, close_time |-> info.close_time,
     candles |-> info.candles]

\* get_binance_chart_url
get_binance_chart_url(sym) == <<"https://www.binance.com/en/trade/", CoinName(sym), "_USDT">>

\* poster.py lines 203-212: the fields the message template interpolates.
ComposeTweet(w) ==
    [symbol |-> w.symbol, change_percent |-> w.change_percent,
     chart_url |-> get_binance_chart_url(w.full_symbol),
     open |-> w.open, close |-> w.close, high |-> w.high,
     close_time |-> w.close_time]

-----------------------------------------------------------------------------
(* find_biggest_green_candle, step by step *)

\* post_tweet is not running during the scan.
InitScan ==
    /\ ScanIdle
    /\ LambdaIdle
    /\ PostIdle
    /\ GainIdle
    /\ ExIdle
    /\ NoFeed
    /\ MainIdle

\* Line 179: get_top_100_symbols().  ok = FALSE stands for a network error or
\* a non-success status (an empty list is returned); line 180 returns
\* (None, None) on an empty list.
FetchSymbols(ok, tickers) ==
    /\ spc = "start"
    /\ symbols' = IF ok THEN RankSymbols(tickers) ELSE <<>>
    /\ spc' = IF symbols' = <<>> THEN "done" ELSE "scan"
    /\ UNCHANGED <<scanned, results, winner, tweet>>
    /\ UNCHANGED restOfScan

\* Mutant: a failed candle fetch ends the scan.
ScanSymbol_StopOnFailure(fetched) ==
    /\ spc = "scan"
    /\ Len(scanned) < Len(symbols)
    /\ LET symbol == symbols[Len(scanned) + 1].symbol
           info == IF fetched.ok /\ fetched.candles # <<>>
                   THEN calculate_hourly_change(fetched)
                   ELSE Absent
       IN  /\ scanned' = Append(scanned, [symbol |-> symbol, fetched |-> fetched])
           /\ results' = IF IsGreen(info)
                         THEN Append(results, Candidate(symbol, info.val))
                         ELSE results
    /\ spc' = IF fetched.ok THEN spc ELSE "done"
    /\ UNCHANGED <<symbols, winner, tweet>>
    /\ UNCHANGED restOfScan

\* Lines 185-195: one pass of the loop, for the next ranked symbol.
ScanSymbol(fetched) ==
    /\ spc = "scan"
    /\ Len(scanned) < Len(symbols)
    /\ LET symbol == symbols[Len(scanned) + 1].symbol
           info == IF fetched.ok /\ fetched.candles # <<>>
                   THEN calculate_hourly_change(fetched)
                   ELSE Absent
       IN  /\ scanned' = Append(scanned, [symbol |-> symbol, fetched |-> fetched])
           /\ results' = IF IsGreen(info)
                         THEN Append(results, Candidate(symbol, info.val))
                         ELSE results
    /\ UNCHANGED <<spc, symbols, winner, tweet>>
    /\ UNCHANGED restOfScan

\* Lines 197-214: after the loop.
SelectWinner ==
    /\ spc = "scan"
    /\ Len(scanned) = Len(symbols)
    /\ spc' = "done"
    /\ IF results = <<>>
       THEN UNCHANGED <<results, winner, tweet>>
       ELSE /\ results' = SortByChange(results)
            /\ winner' = Present(results'[1])
            /\ tweet' = Present(ComposeTweet(results'[1]))
    /\ UNCHANGED <<symbols, scanned>>
    /\ UNCHANGED restOfScan

NextScan ==
    \/ \E ok \in BOOLEAN, tickers \in TickerLists : FetchSymbols(ok, tickers)
    \/ \E fetched \in CandleOutcomes : ScanSymbol(fetched)
    \/ SelectWinner

SpecScan == InitScan /\ [][NextScan]_vars

-----------------------------------------------------------------------------
(* SpecGain: one call of calculate_hourly_change on any candle list *)

AllBars == ClosedBars \cup {Bar_Open, Bar_Old}

GainInputs ==
    {NoCandles} \cup
    {Candles(cs) : cs \in UNION {[1..n -> AllBars] : n \in 0..MaxCandles}}

InitGain ==
    /\ PostIdle
    /\ ScanIdle
    /\ LambdaIdle
    /\ ExIdle
    /\ NoFeed
    /\ MainIdle
    /\ gpc = "call"
    /\ gain_in \in GainInputs
    /\ gain_out = Absent

\* poster.py lines 58-78, from call to return.
Calculate ==
    /\ gpc = "call"
    /\ gain_out' = calculate_hourly_change(gain_in)
    /\ gpc' = "returned"
    /\ UNCHANGED gain_in
    /\ UNCHANGED restOfGain

NextGain == Calculate

SpecGain == InitGain /\ [][NextGain]_vars

-----------------------------------------------------------------------------
(* bot.post_with_backoff_example, step by step (src/bot.py lines 82-135) *)

\* r.headers.get(k): requests' header mapping ignores the case of names.
IgnoreCaseGet(h, k) ==
    IF \E n \in DOMAIN h : Lower(n) = Lower(k)
    THEN [some |-> TRUE, val |-> h[CHOOSE n \in DOMAIN h : Lower(n) = Lower(k)]]
    ELSE [some |-> FALSE, val |-> <<>>]

\* r.raise_for_status() raises HTTPError for 4xx and 5xx.
RaisesForStatus(status) == status >= 400 /\ status < 600

ExReturn == ex_pc' = "done" /\ ex_exc' = ex_exc
ExRaise(e) == ex_pc' = "raised" /\ ex_exc' = e

\* Lines 129-135: a RequestException caught by the handler of the loop.
ExRequestError(att, e) ==
    IF att >= ex_max_retries
    THEN ExRaise(e) /\ UNCHANGED ex_pending
    ELSE /\ ex_pending' = Backoff(att)
         /\ ex_pc' = "sleeping"
         /\ UNCHANGED ex_exc

\* Lines 101-128: one pass of the loop whose request is answered.  On 429
\* int() is applied with no handler around it, so a value that is not an
\* integer leaves the function with ValueError.
ExResponse(st, h, t) ==
    /\ ex_pc = "post"
    /\ ex_attempt' = ex_attempt + 1
    /\ ex_posts' = ex_posts + 1
    /\ ex_resp' = Response("post", st, h, t)
    /\ IF st = TooManyRequests
       THEN LET retry_after == IgnoreCaseGet(h, "Retry-After")
                reset_ts == IgnoreCaseGet(h, "x-rate-limit-reset")
            IN  IF retry_after.some /\ retry_after.val # <<>>
                THEN IF PyInt(retry_after.val).ok
                     THEN /\ ex_pending' = PyInt(retry_after.val).val
                          /\ ex_pc' = "sleeping"
                          /\ UNCHANGED ex_exc
                     ELSE ExRaise("ValueError") /\ UNCHANGED ex_pending
                ELSE IF reset_ts.some /\ reset_ts.val # <<>>
                THEN IF PyInt(reset_ts.val).ok
                     THEN /\ ex_pending' = Max(0, PyInt(reset_ts.val).val - ex_clock)
                          /\ ex_pc' = "sleeping"
                          /\ UNCHANGED ex_exc
                     ELSE ExRaise("ValueError") /\ UNCHANGED ex_pending
                ELSE /\ ex_pending' = ExponentialFallback(ex_attempt')
                     /\ ex_pc' = "sleeping"
                     /\ UNCHANGED ex_exc
       ELSE IF RaisesForStatus(st)
       THEN ExRequestError(ex_attempt', "HTTPError")
       ELSE ExReturn /\ UNCHANGED ex_pending
    /\ UNCHANGED <<ex_max_retries, ex_sleeps, ex_clock>>
    /\ UNCHANGED restOfEx

\* Lines 101-104 and 129-135: one pass of the loop whose request raises a
\* RequestException.
ExException ==
    /\ ex_pc = "post"
    /\ ex_attempt' = ex_attempt + 1
    /\ ex_posts' = ex_posts + 1
    /\ ex_resp' = TransportError("post")
    /\ ExRequestError(ex_attempt', "RequestException")
    /\ UNCHANGED <<ex_max_retries, ex_sleeps, ex_clock>>
    /\ UNCHANGED restOfEx

\* Lines 119-123 and 134-135: time.sleep(ex_pending) and what follows it.
\* After the sleep of a 429, "if attempt >= max_retries: r.raise_for_status()"
\* raises HTTPError, which the handler of the loop re-raises at once (the
\* attempts are exhausted); otherwise the loop goes round again.
ExSleep ==
    /\ ex_pc = "sleeping"
    /\ IF ex_pending < 0
       THEN /\ ExRaise("ValueError")
            /\ UNCHANGED <<ex_sleeps, ex_clock>>
       ELSE /\ ex_sleeps' = Append(ex_sleeps, ex_pending)
            /\ ex_clock' = ex_clock + ex_pending
            /\ IF /\ ex_resp.kind = "response"
                  /\ ex_resp.status = TooManyRequests
                  /\ ex_attempt >= ex_max_retries
               THEN ExRaise("HTTPError")
               ELSE ex_pc' = "post" /\ UNCHANGED ex_exc
    /\ UNCHANGED <<ex_max_retries, ex_attempt, ex_resp, ex_pending, ex_posts>>
    /\ UNCHANGED restOfEx

-----------------------------------------------------------------------------
(* SpecPair: post_tweet and post_with_backoff_example against one server   *)
(* behaviour: the n-th tweet-creation request of either gets feed[n].      *)

PairOutcomes ==
    { Response("post", 201, NoHeaders, "{data: {id: 1}}"),
      Response("post", 403, NoHeaders, "Forbidden"),
      Response("post", TooManyRequests, NoHeaders, RateLimitText),
      Response("post", TooManyRequests, Hdr("Retry-After", <<"2">>), RateLimitText),
      Response("post", TooManyRequests, Hdr("retry-after", <<"2">>), RateLimitText),
      Response("post", TooManyRequests, Hdr("Retry-After", <<"s", "o", "o", "n">>),
               RateLimitText),
      TransportError("post") }

InitPair ==
    /\ ScanIdle
    /\ LambdaIdle
    /\ GainIdle
    /\ MainIdle
    /\ feed \in [1..FeedLen -> PairOutcomes]
    /\ max_retries \in 1..FeedLen
    /\ ex_max_retries = max_retries
    /\ pc = "start"
    /\ creds = [i \in 1..4 |-> "key"]
    /\ tweet_text = TweetText
    /\ image_path = NoneVal
    /\ media_id = NoneVal
    /\ payload = [text |-> TweetText]
    /\ attempt = 0
    /\ resp = NoResp
    /\ pending = 0
    /\ sleeps = <<>>
    /\ clock = StartTime
    /\ uploads = 0
    /\ posts = 0
    /\ result = NoResult
    /\ exc = NoneVal
    /\ ex_pc = "post"
    /\ ex_attempt = 0
    /\ ex_resp = NoResp
    /\ ex_pending = 0
    /\ ex_sleeps = <<>>
    /\ ex_clock = StartTime
    /\ ex_posts = 0
    /\ ex_exc = NoneVal

\* The next request of post_tweet gets the outcome the feed holds for it.
PairPost ==
    /\ attempt < Len(feed)
    /\ LET o == feed[attempt + 1]
       IN  IF o.kind = "exception" THEN PostException
           ELSE PostResponse(o.status, o.headers, o.text)

\* The next request of post_with_backoff_example gets the outcome the feed
\* holds for it.
PairExPost ==
    /\ ex_attempt < Len(feed)
    /\ LET o == feed[ex_attempt + 1]
       IN  IF o.kind = "exception" THEN ExException
           ELSE ExResponse(o.status, o.headers, o.text)

NextPair ==
    \/ CheckCredentials
    \/ PairPost
    \/ Sleep
    \/ PairExPost
    \/ ExSleep

SpecPair == InitPair /\ [][NextPair]_vars

-----------------------------------------------------------------------------
(* SpecMain: one run of a command-line entry point, poster.main            *)
(* (src/poster.py lines 216-245) or bot.main (src/bot.py lines 44-79),     *)
(* with the scan and the posters it calls.                                 *)

DefaultRetries == 5   \* max_retries default of post_tweet
ExampleRetries == 5   \* max_retries default of post_with_backoff_example

DryRunValues == {NoneVal, "false", "FALSE", "0", "no", "OFF", "true", ""}

\* str.lower() on the DRY_RUN values.
EnvLower(v) ==
    CASE v = "FALSE" -> "false"
      [] v = "OFF" -> "off"
      [] OTHER -> v

\* Mutant: only "true" switches the dry run on.
DryRunFlag_TrueOnly(v, default) ==
    EnvLower(IF v = NoneVal THEN default ELSE v) = "true"

\* os.getenv("DRY_RUN", default).lower() not in ("false", "0", "no", "off")
DryRunFlag(v, default) ==
    EnvLower(IF v = NoneVal THEN default ELSE v) \notin {"false", "0", "no", "off"}

\* bot.py lines 35-37.
is_dry_run(v) == DryRunFlag(v, "true")

\* poster.py line 225.
dry(v) == DryRunFlag(v, "false")

\* Mutant: main goes on whatever the scan returned.
NothingToPost_Never(w, t) == FALSE

\* poster.py line 219: not winner or not tweet_text
NothingToPost(w, t) == ~w.some \/ ~t.some

ChartFile == "crypto_chart.png"
BotMessage == "Automated update from crypto-twitter-bot"

MainTickerLists ==
    { <<>>,
      <<Ticker("ETHBTC", <<"7">>)>>,
      <<Ticker("BTCUSDT", <<"9">>)>>,
      <<Ticker("BTCUSDT", <<"9">>), Ticker("DOGEUSDT", <<"1", "2">>)>> }
MainCandleOutcomes ==
    { NoCandles, Candles(<<Bar_10_12, Bar_Open>>), Candles(<<Bar_10_9, Bar_Open>>) }
MainCreds == { [i \in 1..4 |-> "key"], [i \in 1..4 |-> IF i = 2 THEN NoneVal ELSE "key"] }
MainHeaderCases == { NoHeaders, Hdr("Retry-After", <<"-", "1">>) }

InitMain ==
    /\ ScanIdle
    /\ LambdaIdle
    /\ PostIdle
    /\ GainIdle
    /\ ExIdle
    /\ NoFeed
    /\ entry_point \in {"poster", "bot"}
    /\ mpc = IF entry_point = "poster" THEN "scanning" ELSE "start"
    /\ dry_env = "<unread>"
    /\ has_real_bot = FALSE
    /\ chart_path = NoneVal
    /\ charts = 0
    /\ chart_files = 0
    /\ main_exc = NoneVal

\* real_bot.post_tweet(text, image_path=image) is entered; its module reads
\* the credentials from the environment when imported.
CallPostTweet(c, text, image) ==
    /\ pc' = "start"
    /\ creds' = c
    /\ tweet_text' = text
    /\ image_path' = image
    /\ max_retries' = DefaultRetries
    /\ UNCHANGED <<media_id, payload, attempt, resp, pending, sleeps, clock,
                   uploads, posts, result, exc>>

\* poster.py lines 219-221: the scan returned nothing to post.
MainNothingToPost ==
    /\ entry_point = "poster"
    /\ mpc = "scanning"
    /\ spc = "done"
    /\ NothingToPost(winner, tweet)
    /\ mpc' = "returned"
    /\ UNCHANGED <<entry_point, dry_env, has_real_bot, chart_path, charts, chart_files,
                   main_exc>>
    /\ UNCHANGED <<postVars, scanVars, exVars>>
    /\ UNCHANGED restOfMain

\* poster.py line 223 with lines 81-175: the chart is rendered and saved, or
\* an exception inside create_candlestick_chart makes it return None.
MainRenderChart(rendered) ==
    /\ entry_point = "poster"
    /\ mpc = "scanning"
    /\ spc = "done"
    /\ ~NothingToPost(winner, tweet)
    /\ charts' = charts + 1
    /\ chart_files' = IF rendered THEN chart_files + 1 ELSE chart_files
    /\ chart_path' = IF rendered THEN ChartFile ELSE NoneVal
    /\ mpc' = "gate"
    /\ UNCHANGED <<entry_point, dry_env, has_real_bot, main_exc>>
    /\ UNCHANGED <<postVars, scanVars, exVars>>
    /\ UNCHANGED restOfMain

\* poster.py lines 225-243: the dry-run gate, the import of real_bot and the
\* call of post_tweet.
MainPosterGate(v, importable, c) ==
    /\ entry_point = "poster"
    /\ mpc = "gate"
    /\ dry_env' = v
    /\ IF dry(v)
       THEN /\ mpc' = "returned"
            /\ UNCHANGED <<has_real_bot, postVars>>
       ELSE /\ has_real_bot' = importable
            /\ IF importable
               THEN /\ CallPostTweet(c, tweet.val, chart_path)
                    /\ mpc' = "posting"
               ELSE /\ mpc' = "returned"
                    /\ UNCHANGED postVars
    /\ UNCHANGED <<entry_point, chart_path, charts, chart_files, main_exc>>
    /\ UNCHANGED <<scanVars, exVars>>
    /\ UNCHANGED restOfMain

\* bot.py lines 45-76: the import of real_bot, the dry-run gate and the call
\* of real_bot.post_tweet or of post_with_backoff_example.
MainBotGate(v, importable, c) ==
    /\ entry_point = "bot"
    /\ mpc = "start"
    /\ dry_env' = v
    /\ has_real_bot' = importable
    /\ IF is_dry_run(v)
       THEN /\ mpc' = "returned"
            /\ UNCHANGED <<postVars, exVars>>
       ELSE IF importable
       THEN /\ CallPostTweet(c, BotMessage, NoneVal)
            /\ mpc' = "posting"
            /\ UNCHANGED exVars
       ELSE /\ ex_pc' = "post"
            /\ ex_max_retries' = ExampleRetries
            /\ mpc' = "example"
            /\ UNCHANGED <<ex_attempt, ex_resp, ex_pending, ex_sleeps, ex_clock,
                           ex_posts, ex_exc>>
            /\ UNCHANGED postVars
    /\ UNCHANGED <<entry_point, chart_path, charts, chart_files, main_exc>>
    /\ UNCHANGED scanVars
    /\ UNCHANGED restOfMain

\* post_tweet has returned or raised.  poster.py lines 241-245: the result
\* is logged, an exception is caught by "except Exception" and logged.
\* bot.py lines 63-70: the result is logged, an exception is logged and
\* raised again.
MainAfterPost ==
    /\ mpc = "posting"
    /\ pc \in {"done", "raised"}
    /\ IF pc = "raised" /\ entry_point = "bot"
       THEN mpc' = "raised" /\ main_exc' = exc
       ELSE mpc' = "returned" /\ UNCHANGED main_exc
    /\ UNCHANGED <<entry_point, dry_env, has_real_bot, chart_path, charts, chart_files>>
    /\ UNCHANGED <<postVars, scanVars, exVars>>
    /\ UNCHANGED restOfMain

\* bot.py lines 74-79: post_with_backoff_example has returned or raised; an
\* exception is logged and raised again.
MainAfterExample ==
    /\ mpc = "example"
    /\ ex_pc \in {"done", "raised"}
    /\ IF ex_pc = "raised"
       THEN mpc' = "raised" /\ main_exc' = ex_exc
       ELSE mpc' = "returned" /\ UNCHANGED main_exc
    /\ UNCHANGED <<entry_point, dry_env, has_real_bot, chart_path, charts, chart_files>>
    /\ UNCHANGED <<postVars, scanVars, exVars>>
    /\ UNCHANGED restOfMain

\* poster.py line 218: the steps of find_biggest_green_candle.
MainScan ==
    /\ entry_point = "poster"
    /\ mpc = "scanning"
    /\ \/ \E ok \in BOOLEAN, tickers \in MainTickerLists : FetchSymbols(ok, tickers)
       \/ \E fetched \in MainCandleOutcomes : ScanSymbol(fetched)
       \/ SelectWinner

NextMain ==
    \/ MainScan
    \/ MainNothingToPost
    \/ \E rendered \in BOOLEAN : MainRenderChart(rendered)
    \/ \E v \in DryRunValues, importable \in BOOLEAN, c \in MainCreds :
          MainPosterGate(v, importable, c)
    \/ \E v \in DryRunValues, importable \in BOOLEAN, c \in MainCreds :
          MainBotGate(v, importable, c)
    \/ CheckCredentials
    \/ \E st \in UploadStatuses, t \in UploadTexts, b \in BOOLEAN :
          UploadResponse(st, NoHeaders, t, b)
    \/ UploadException
    \/ \E st \in PostStatuses, h \in MainHeaderCases : PostResponse(st, h, RateLimitText)
    \/ PostException
    \/ Sleep
    \/ MainAfterPost
    \/ \E st \in PostStatuses, h \in MainHeaderCases : ExResponse(st, h, RateLimitText)
    \/ ExException
    \/ ExSleep
    \/ MainAfterExample

SpecMain == InitMain /\ [][NextMain]_vars

-----------------------------------------------------------------------------
(* SpecLambda: one invocation of lambda_handler                            *)
(* (src/lambda_function.py lines 177-210) with the scan and the post_tweet *)
(* of that file (lines 150-175).                                           *)

LambdaTexts == {"{data: {id: 1}}", "{}", "<html>"}

\* response.json()['data']['id'] succeeds
HasTweetId(t) == t = "{data: {id: 1}}"

\* lambda_function.py lines 159-175: True only when the answer is 201 and its
\* body holds data.id; any exception inside the try gives False.
Posted(outcome) ==
    /\ outcome.kind = "response"
    /\ outcome.status = 201
    /\ HasTweetId(outcome.text)

LambdaOutcomes ==
    {Response("post", st, NoHeaders, t) : st \in PostStatuses, t \in LambdaTexts}
        \cup {TransportError("post")}

InitLambda ==
    /\ ScanIdle
    /\ PostIdle
    /\ GainIdle
    /\ ExIdle
    /\ NoFeed
    /\ MainIdle
    /\ lpc = "scanning"
    /\ l_posts = 0
    /\ l_resp = NoResp
    /\ statusCode = 0

\* Line 183: the steps of find_biggest_green_candle (lines 83-148).
LambdaScan ==
    /\ lpc = "scanning"
    /\ \/ \E ok \in BOOLEAN, tickers \in MainTickerLists : FetchSymbols(ok, tickers)
       \/ \E fetched \in MainCandleOutcomes : ScanSymbol(fetched)
       \/ SelectWinner

\* Lines 63-66 and 205-210: a kline row whose prices float() cannot parse
\* makes calculate_hourly_change raise; nothing catches it before the handler
\* of lambda_handler, which returns 500.
LambdaScanRaises ==
    /\ lpc = "scanning"
    /\ spc = "scan"
    /\ Len(scanned) < Len(symbols)
    /\ lpc' = "returned"
    /\ statusCode' = 500
    /\ UNCHANGED <<l_posts, l_resp>>
    /\ UNCHANGED scanVars
    /\ UNCHANGED restOfLambda

\* Lines 185-189: nothing to post.
LambdaNoData ==
    /\ lpc = "scanning"
    /\ spc = "done"
    /\ NothingToPost(winner, tweet)
    /\ lpc' = "returned"
    /\ statusCode' = 200
    /\ UNCHANGED <<l_posts, l_resp>>
    /\ UNCHANGED scanVars
    /\ UNCHANGED restOfLambda

\* Lines 191-203 with post_tweet (lines 150-175).  When requests_oauthlib
\* cannot be imported (line 152, outside the try of post_tweet) the
\* ImportError reaches the handler of lambda_handler and no request is made.
LambdaPost(importable, outcome) ==
    /\ lpc = "scanning"
    /\ spc = "done"
    /\ ~NothingToPost(winner, tweet)
    /\ lpc' = "returned"
    /\ IF importable
       THEN /\ l_posts' = l_posts + 1
            /\ l_resp' = outcome
            /\ statusCode' = IF Posted(outcome) THEN 200 ELSE 500
       ELSE /\ statusCode' = 500
            /\ UNCHANGED <<l_posts, l_resp>>
    /\ UNCHANGED scanVars
    /\ UNCHANGED restOfLambda

NextLambda ==
    \/ LambdaScan
    \/ LambdaScanRaises
    \/ LambdaNoData
    \/ \E importable \in BOOLEAN, outcome \in LambdaOutcomes :
          LambdaPost(importable, outcome)

SpecLambda == InitLambda /\ [][NextLambda]_vars

-----------------------------------------------------------------------------
(* Properties of real_bot.post_tweet *)

\* The last outcome seen is the answer to a tweet-creation request.
PostAnswered == resp.phase = "post" /\ resp.kind = "response"
PostFailedTransport == resp.phase = "post" /\ resp.kind = "exception"

\* What a FAILURE result is said to carry for a response.
FailureOf(r) ==
    [ok |-> FALSE, status_code |-> r.status, text |-> r.text,
     rate |-> _rate_headers(r.headers)]

\* C1: with max_retries >= 1, the number of tweet-creation requests issued in
\* one invocation never exceeds max_retries, whatever mix of 429 responses and
\* transport exceptions the server produces.
C1_RequestsBounded == max_retries >= 1 => posts <= max_retries

\* C1 witness: the whole budget was used, on 429s and on transport errors.
C1_Witness ==
    /\ pc = "done"
    /\ max_retries = MaxRetries
    /\ posts = max_retries
    /\ PostFailedTransport
    /\ \E i \in 1..Len(sleeps) : sleeps[i] >= FallbackBase

\* A header looked up the way HTTP names headers, without regard to case.
HeaderPresent(h, name) == \E k \in DOMAIN h : Lower(k) = Lower(name)
HeaderValue(h, name) == h[CHOOSE k \in DOMAIN h : Lower(k) = Lower(name)]
HeaderInt(h, name) ==
    IF HeaderPresent(h, name) /\ PyInt(HeaderValue(h, name)).ok
    THEN Some(PyInt(HeaderValue(h, name)).val)
    ELSE Nothing

\* The sleep the priority rule prescribes for a 429 at attempt k.
PrescribedSleep(h, k, now) ==
    IF HeaderInt(h, "Retry-After").some
    THEN HeaderInt(h, "Retry-After").val
    ELSE IF HeaderInt(h, "x-rate-limit-reset").some
    THEN Max(0, HeaderInt(h, "x-rate-limit-reset").val - now)
    ELSE Min(60 * (2 ^ (k - 1)), 3600)

\* C2: on a 429 at attempt k the sleep is the Retry-After value if that header
\* is present and an integer, else max(0, reset - now) if the reset header is
\* present and an integer, else min(60 * 2^(k-1), 3600).
C2_SleepPriority ==
    (pc = "sleeping" /\ PostAnswered /\ resp.status = 429)
        => pending = PrescribedSleep(resp.headers, attempt, clock)

\* C3: a 429 on attempt max_retries ends in FAILURE 429 (body and rate headers
\* attached) with no sleep after it; a 429 on an earlier attempt is followed by
\* exactly one sleep of the computed duration and then the next attempt.
C3_RateLimitedOutcome ==
    (max_retries >= 1 /\ PostAnswered /\ resp.status = 429)
        => IF attempt = max_retries
           THEN /\ pc = "done"
                /\ result = FailureOf(resp)
                /\ Len(sleeps) = attempt - 1
           ELSE /\ attempt < max_retries
                /\ \/ pc = "sleeping" /\ Len(sleeps) = attempt - 1
                   \/ /\ pc = "post"
                      /\ Len(sleeps) = attempt
                      /\ sleeps[attempt] = pending

\* C4: a tweet-creation response that is neither 200, 201 nor 429 ends the
\* invocation in FAILURE at that attempt, with that status, body and rate
\* headers; no sleep and no request follows it.
C4_OtherStatusIsFinal ==
    (PostAnswered /\ resp.status \notin {200, 201, 429})
        => /\ pc = "done"
           /\ result = FailureOf(resp)
           /\ posts = attempt
           /\ Len(sleeps) = attempt - 1

\* C4 witness: a 503 on the second attempt, after one retry.
C4_Witness ==
    /\ pc = "done"
    /\ PostAnswered
    /\ resp.status = 503
    /\ attempt = 2
    /\ max_retries > 2

\* C5: a transport exception on attempt k < max_retries is followed by a sleep
\* of exactly min(2^k, 60) seconds and then attempt k+1; on attempt
\* k = max_retries it ends the invocation in FAILURE with the exception
\* message and no sleep.
C5_TransportErrorOutcome ==
    (max_retries >= 1 /\ PostFailedTransport)
        => IF attempt = max_retries
           THEN /\ pc = "done"
                /\ result.ok = FALSE
                /\ "error" \in DOMAIN result
                /\ "status_code" \notin DOMAIN result
                /\ Len(sleeps) = attempt - 1
           ELSE /\ attempt < max_retries
                /\ \/ /\ pc = "sleeping"
                      /\ pending = Min(2 ^ attempt, 60)
                      /\ Len(sleeps) = attempt - 1
                   \/ /\ pc = "post"
                      /\ Len(sleeps) = attempt
                      /\ sleeps[attempt] = Min(2 ^ attempt, 60)
                      /\ posts = attempt

\* C5 witness: the capped back-off was slept (2^k > 60) and the next attempt
\* is about to be made.
C5_Witness ==
    /\ pc = "post"
    /\ PostFailedTransport
    /\ 2 ^ attempt > 60
    /\ sleeps[attempt] = 60

\* C6: a 200 or 201 answer to the tweet-creation request ends the invocation
\* in SUCCESS with that status code, the body and the rate-header snapshot,
\* nothing follows it, and SUCCESS is returned only after such an answer.
C6_SuccessIffCreated ==
    /\ (PostAnswered /\ resp.status \in {200, 201})
          => /\ pc = "done"
             /\ result = [ok |-> TRUE, status_code |-> resp.status,
                          body |-> IF IsJson(resp.text) THEN [json |-> resp.text]
                                   ELSE [text |-> resp.text],
                          rate |-> _rate_headers(resp.headers)]
             /\ posts = attempt
             /\ Len(sleeps) = attempt - 1
    /\ (pc = "done" /\ result.ok)
          => PostAnswered /\ resp.status \in {200, 201}

\* C6 witness: a 200 with an unparsable body on the third attempt.
C6_Witness ==
    /\ pc = "done"
    /\ result.ok
    /\ resp.status = 200
    /\ ~IsJson(resp.text)
    /\ attempt = 3

\* C7: with any of the four credentials unset or empty the invocation returns
\* FAILURE with an error message and issues no request and no sleep.
C7_MissingCredentials ==
    (\E i \in 1..4 : creds[i] \in {NoneVal, ""})
        => /\ pc \in {"start", "done"}
           /\ uploads = 0
           /\ posts = 0
           /\ sleeps = <<>>
           /\ pc = "done" => (result.ok = FALSE /\ "error" \in DOMAIN result)

\* C7 witness: one empty credential among three good ones, an image given.
C7_Witness ==
    /\ pc = "done"
    /\ creds = <<"key", "key", "", "key">>
    /\ image_path = "crypto_chart.png"

\* C8: the upload phase is entered only for a supplied, existing image and
\* makes exactly one upload request; a non-200 answer or a transport exception
\* there ends the invocation in FAILURE with no tweet-creation request.
C8_UploadPhase ==
    /\ (pc = "upload" \/ uploads > 0)
          => (Truthy(image_path) /\ PathExists(image_path))
    /\ uploads <= 1
    /\ (pc \notin {"start", "upload"} /\ (\A i \in 1..4 : Truthy(creds[i]))
          /\ Truthy(image_path) /\ PathExists(image_path)) => uploads = 1
    /\ (resp.phase = "upload"
          /\ (resp.kind = "exception" \/ resp.status # 200))
          => (pc = "done" /\ result.ok = FALSE /\ posts = 0)

\* C9: every invocation ends by returning a result with ok = true or
\* ok = false, never by raising.
C9_NeverRaises ==
    /\ pc # "raised"
    /\ pc = "done" => result.ok \in BOOLEAN

-----------------------------------------------------------------------------
(* Properties of find_biggest_green_candle *)

\* The gain of one scanned symbol, absent when its fetch failed or gave no gain.
GainOf(entry) ==
    calculate_hourly_change(entry.fetched)

\* The scanned positions whose change_percent is > 0.
GreenPositions ==
    {i \in 1..Len(scanned) :
        GainOf(scanned[i]).some /\ GainOf(scanned[i]).val.change_percent.num > 0}

\* C10: a winner is returned exactly when some scanned symbol has
\* change_percent > 0; the winner is one of those, its change_percent is > 0
\* and no scanned symbol has a greater one; with no such symbol both the winner
\* and the message are absent.
C10_WinnerIsGreatestGreen ==
    spc = "done" =>
        /\ winner.some <=> GreenPositions # {}
        /\ tweet.some <=> winner.some
        /\ winner.some =>
              /\ winner.val.change_percent.num > 0
              /\ \E i \in GreenPositions :
                    /\ scanned[i].symbol = winner.val.full_symbol
                    /\ GainOf(scanned[i]).val.change_percent
                          = winner.val.change_percent
              /\ \A j \in 1..Len(scanned) :
                    GainOf(scanned[j]).some =>
                       ~Less(winner.val.change_percent,
                             GainOf(scanned[j]).val.change_percent)

\* C10 witness: three symbols scanned, the first fetch failed, the second
\* fell, the third rose and is the winner.
C10_Witness ==
    /\ spc = "done"
    /\ Len(scanned) = 3
    /\ ~scanned[1].fetched.ok
    /\ GainOf(scanned[2]).some
    /\ GainOf(scanned[2]).val.change_percent.num < 0
    /\ winner.some
    /\ winner.val.full_symbol = scanned[3].symbol


\* The position at which a symbol was fetched.
FetchPosition(sym) == CHOOSE i \in 1..Len(scanned) : scanned[i].symbol = sym

SameChange(a, b) == ~Less(a, b) /\ ~Less(b, a)

\* The scanned positions whose change_percent equals the winner's.
WinnerTies ==
    {i \in GreenPositions :
        SameChange(GainOf(scanned[i]).val.change_percent,
                   winner.val.change_percent)}

\* C11: among the candidates that share the maximum change_percent the one
\* fetched first is selected, and the sorted results keep candidates of equal
\* change_percent in the order they were fetched.
C11_FirstFetchedWinsTies ==
    (spc = "done" /\ winner.some) =>
        /\ \A i \in WinnerTies : FetchPosition(winner.val.full_symbol) <= i
        /\ \A a, b \in 1..Len(results) :
              (a < b /\ SameChange(results[a].change_percent,
                                   results[b].change_percent))
                 => FetchPosition(results[a].full_symbol)
                       < FetchPosition(results[b].full_symbol)

\* C11 witness: two candidates tie for the maximum (12/10 and 6/5), a smaller
\* one was fetched before them, and the earlier of the two is the winner.
C11_Witness ==
    /\ spc = "done"
    /\ winner.some
    /\ Len(results) = 3
    /\ Cardinality(WinnerTies) = 2
    /\ \E i, j \in WinnerTies :
          /\ i < j
          /\ GainOf(scanned[i]).val.open # GainOf(scanned[j]).val.open
          /\ winner.val.full_symbol = scanned[i].symbol
    /\ GainOf(scanned[1]).some
    /\ Less(GainOf(scanned[1]).val.change_percent, winner.val.change_percent)


-----------------------------------------------------------------------------
(* Properties of calculate_hourly_change *)

\* The second-to-last candle of the argument, as a kline row
\* <<open_time, open, high, low, close, volume, close_time>>.
ClosedBarOf(arg) == arg.candles[Len(arg.candles) - 1]

\* C12: the result is absent exactly when the candles are missing, fewer than
\* two, or the open of the second-to-last candle is 0; otherwise open, close,
\* high, low and close_time are those of the second-to-last candle and
\* change_percent = (close - open) / open * 100.
C12_GainFromClosedBar ==
    gpc = "returned" =>
        IF ~gain_in.ok \/ Len(gain_in.candles) < 2
        THEN ~gain_out.some
        ELSE LET bar == ClosedBarOf(gain_in)
                 o == PyInt(bar[2]).val
                 c == PyInt(bar[5]).val
             IN  IF o = 0 THEN ~gain_out.some
                 ELSE /\ gain_out.some
                      /\ gain_out.val.open = o
                      /\ gain_out.val.close = c
                      /\ gain_out.val.high = PyInt(bar[3]).val
                      /\ gain_out.val.low = PyInt(bar[4]).val
                      /\ gain_out.val.close_time * 1000 = bar[7]
                      /\ gain_out.val.change_percent.num * o
                            = (c - o) * 100 * gain_out.val.change_percent.den

\* C12 witness: three candles whose last one differs from the closed one in
\* every price; the gain is that of the closed one (10 -> 9).
C12_Witness ==
    /\ gpc = "returned"
    /\ gain_in = Candles(<<Bar_Old, Bar_10_9, Bar_5_6>>)
    /\ gain_out.some
    /\ gain_out.val.change_percent.num < 0


-----------------------------------------------------------------------------
(* Robustness of the scan *)

\* The full symbols held by the candidate list.
CandidateSymbols == {results[j].full_symbol : j \in 1..Len(results)}

\* C17: a failed candle fetch or an absent gain never aborts the scan: the
\* fetches made so far are those of the first ranked symbols, one each and in
\* ranked order; the scan ends only when every ranked symbol has been fetched;
\* and every fetched symbol whose change_percent is > 0 is a candidate,
\* whatever happened to the symbols before it.
C17_ScanNeverAborts ==
    /\ Len(scanned) <= Len(symbols)
    /\ \A i \in 1..Len(scanned) : scanned[i].symbol = symbols[i].symbol
    /\ spc = "done" => Len(scanned) = Len(symbols)
    /\ \A i \in GreenPositions : scanned[i].symbol \in CandidateSymbols

\* C17 witness: the first fetch fails, the second has no gain (open 0), and
\* the third symbol, a green one, is the winner.
C17_Witness ==
    /\ spc = "done"
    /\ Len(scanned) = 3
    /\ ~scanned[1].fetched.ok
    /\ scanned[2].fetched.ok
    /\ ~GainOf(scanned[2]).some
    /\ 3 \in GreenPositions
    /\ winner.some
    /\ winner.val.full_symbol = symbols[3].symbol

-----------------------------------------------------------------------------
(* Sleep durations of post_tweet *)

\* C19: every duration post_tweet passes to sleep is >= 0.
C19_SleepNonNegative ==
    pc = "sleeping" => pending >= 0

\* The names of the snapshot that are the given header name in some
\* capitalisation and carry an integer.
SnapshotInts(snapshot, name) ==
    {k \in DOMAIN snapshot : Lower(k) = name /\ PyInt(snapshot[k]).ok}

\* C20: when the rate-header snapshot of a 429 response holds a Retry-After or
\* x-rate-limit-reset entry with an integer value, the sleep is that
\* Retry-After value or max(0, reset - now), not the exponential fallback.
C20_SnapshotHeaderDrivesSleep ==
    (pc = "sleeping" /\ PostAnswered /\ resp.status = TooManyRequests)
        => LET snapshot == _rate_headers(resp.headers)
               after == SnapshotInts(snapshot, "retry-after")
               reset == SnapshotInts(snapshot, "x-rate-limit-reset")
           IN  (after \cup reset # {})
                  => \/ \E k \in after : pending = PyInt(snapshot[k]).val
                     \/ \E k \in reset :
                           pending = Max(0, PyInt(snapshot[k]).val - clock)


-----------------------------------------------------------------------------
(* post_tweet against post_with_backoff_example *)

PostFinished == pc \in {"done", "raised"}
ExFinished == ex_pc \in {"done", "raised"}

\* C18: for the same max_retries and the same sequence of server outcomes the
\* two posters issue the same number of tweet-creation requests, perform the
\* same sequence of sleeps and stop at the same attempt.
C18_SameRetryProtocol ==
    (PostFinished /\ ExFinished)
        => /\ posts = ex_posts
           /\ sleeps = ex_sleeps
           /\ attempt = ex_attempt


-----------------------------------------------------------------------------
(* Properties of the entry points *)

\* Requests sent to the posting service by either poster.
NoRequestIssued == uploads = 0 /\ posts = 0 /\ ex_posts = 0

\* C13: in poster.main, when the market snapshot yields an empty list, no
\* candles are fetched, no chart is rendered or written, no upload or tweet
\* request is issued, and main returns.
C13_EmptySnapshotEndsRun ==
    (entry_point = "poster" /\ spc = "done" /\ symbols = <<>>)
        => /\ scanned = <<>>
           /\ charts = 0
           /\ chart_files = 0
           /\ NoRequestIssued
           /\ pc = "idle"
           /\ mpc \in {"scanning", "returned"}

\* C13 witness: poster.main has returned after an empty snapshot.
C13_Witness ==
    /\ entry_point = "poster"
    /\ mpc = "returned"
    /\ spc = "done"
    /\ symbols = <<>>
    /\ charts = 0


\* The DRY_RUN values that switch the dry run off, and the dry-run flag as
\* configured: an unset variable means active in bot.main and inactive in
\* poster.main.
DryRunOff == {"false", "FALSE", "0", "no", "OFF"}
DryRunActive ==
    IF dry_env = NoneVal THEN entry_point = "bot" ELSE dry_env \notin DryRunOff

GatePassed == mpc \in {"posting", "example", "returned", "raised"} /\ dry_env # "<unread>"

\* C14: in both entry points, when the dry-run flag is active no media-upload
\* and no tweet-creation request is issued (none is issued before the flag is
\* read either) and main returns; in poster.main the winner has been selected
\* and the chart rendering performed before the gate.
C14_DryRunIssuesNoRequest ==
    /\ ~GatePassed => NoRequestIssued
    /\ (GatePassed /\ DryRunActive)
          => /\ NoRequestIssued
             /\ pc = "idle"
             /\ ex_pc = "idle"
             /\ mpc = "returned"
             /\ entry_point = "poster"
                   => (spc = "done" /\ winner.some /\ tweet.some /\ charts = 1)

\* C14 witness: poster.main has returned from the dry-run gate (DRY_RUN is
\* the empty string) with a winner and a chart.
C14_Witness ==
    /\ entry_point = "poster"
    /\ mpc = "returned"
    /\ dry_env = ""
    /\ winner.some
    /\ chart_files = 1

\* A non-dry run of poster.main whose chart rendering failed and which found
\* real_bot.
TextOnlyRun ==
    /\ entry_point = "poster"
    /\ GatePassed
    /\ ~DryRunActive
    /\ has_real_bot
    /\ charts = 1
    /\ chart_path = NoneVal

\* C15: in a non-dry run of poster.main with a winner, when chart rendering
\* fails post_tweet is still called, with the composed text and no image; it
\* issues no upload request and never enters the upload phase, its payload is
\* the text alone, and (the credentials being present) it ends only after a
\* tweet-creation request.
C15_ChartFailureTextOnly ==
    TextOnlyRun
        => /\ pc # "idle"
           /\ tweet_text = tweet.val
           /\ image_path = NoneVal
           /\ uploads = 0
           /\ pc # "upload"
           /\ resp.phase # "upload"
           /\ media_id = NoneVal
           /\ (pc \in {"post", "sleeping"} \/ posts > 0) => payload = [text |-> tweet.val]
           /\ (HaveCredentials(creds) /\ pc \in {"done", "raised"}) => posts >= 1

\* C15 witness: such a run has posted the text alone and been answered 201.
C15_Witness ==
    /\ TextOnlyRun
    /\ mpc = "returned"
    /\ pc = "done"
    /\ posts = 1
    /\ resp.status = 201
    /\ payload = [text |-> tweet.val]

\* C16: no error propagates out of bot.main or poster.main.
C16_MainsReturnNormally ==
    mpc # "raised"


-----------------------------------------------------------------------------
(* Retries of post_tweet *)

\* C21: retries never repeat the media upload and never change the payload:
\* at most one upload request is issued per invocation, none once a
\* tweet-creation request has been sent, and every tweet-creation request
\* sends the payload built after the upload phase (the text, with the media
\* identifier of the upload or none), which no later step changes.
C21_RetriesKeepUploadAndPayload ==
    [][ /\ uploads' <= 1
        /\ uploads' # uploads => posts = 0
        /\ posts' # posts
              => /\ posts' = posts + 1
                 /\ payload = BuildPayload(tweet_text, media_id)
                 /\ payload' = payload
                 /\ media_id' = media_id
                 /\ tweet_text' = tweet_text
        /\ posts >= 1 => (payload' = payload /\ uploads' = uploads) ]_vars

\* C21 witness: after one upload, a third tweet-creation request has been
\* sent with the media identifier of that upload.
C21_Witness ==
    /\ uploads = 1
    /\ posts = 3
    /\ Len(sleeps) = 2
    /\ media_id = "m1"
    /\ payload = [text |-> tweet_text, media |-> <<"m1">>]


\* C22: with max_retries >= 1, every invocation in which each request and each
\* sleep completes eventually reaches a terminal result (a returned SUCCESS or
\* FAILURE) once it has entered the tweet-creation loop.
C22_EventuallyResult ==
    (max_retries >= 1) => [](pc = "post" => <>(pc = "done"))


-----------------------------------------------------------------------------
(* Properties of lambda_handler *)

\* C23: lambda_handler never raises and issues at most one tweet-creation
\* request; with no winner it issues none and returns statusCode 200;
\* otherwise it returns 200 exactly when its single request was answered 201,
\* and 500 for every other status, transport exception or internal error.
C23_LambdaOutcome ==
    /\ lpc # "raised"
    /\ l_posts <= 1
    /\ lpc = "returned"
          => IF spc = "done" /\ ~winner.some
             THEN l_posts = 0 /\ statusCode = 200
             ELSE IF l_posts = 1 /\ l_resp.kind = "response" /\ l_resp.status = 201
             THEN statusCode = 200
             ELSE statusCode = 500

====
